---- MODULE Spec2Model ----
(***************************************************************************)
(* The dashboard DataStore (src/unnamed/part_000): a cache of named        *)
(* resources with watch callbacks, per-name watch counts and a garbage     *)
(* collector.  Names are strings, modelled as sequences of one-character   *)
(* strings so that split('/') and the template join are computed, not      *)
(* assumed.  A mutation's notification pass is modelled one callback at a  *)
(* time, with an explicit call stack, because a user callback may call     *)
(* back into the store before the pass continues.                          *)
(***************************************************************************)
EXTENDS Integers, Sequences, FiniteSets, TLC

\* ---------------------------------------------------------------- bounds
MaxCbs == 2
MaxDepth == 2
MaxItems == 2
MaxNames == 2
MaxNested == 1

\* ---------------------------------------------------------------- strings
Sep == "/"

\* "a", "a/b" and "/a" (a name with an empty leading segment)
NameA == <<"a">>
NameAB == <<"a", "/", "b">>
NameSlashA == <<"/", "a">>
\* the names the callers of one run use: a hierarchy, or a name with an empty
\* segment beside a name without
Universes == {{NameA, NameAB}, {NameA, NameSlashA}}

\* what the callers of one run do: adds of several items with user callbacks that
\* only observe, or adds of one item with user callbacks that call the store.
\* A bounded run keeps the history of its passes and budgets the calls its user
\* callbacks make
Shapes ==
    {[items |-> MaxItems, nested |-> 0, bounded |-> TRUE],
     [items |-> 1, nested |-> MaxNested, bounded |-> TRUE]}

\* a run whose user callbacks call the store as often as they like
LoopShape == [items |-> 1, nested |-> 0, bounded |-> FALSE]

\* the snapshots toObject() can return
Objs == {1, 2}

SeqsUpTo(S, n) == UNION {[1..k -> S] : k \in 1..n}
Range(s) == {s[i] : i \in 1..Len(s)}

\* the argument lists of watch(...): one to MaxNames distinct names
NameLists(names) ==
    {l \in SeqsUpTo(names, MaxNames) : Cardinality(Range(l)) = Len(l)}

\* String.prototype.split('/'): the parts between separators; "" gives [""]
RECURSIVE SplitFrom(_, _, _)
SplitFrom(s, i, cur) ==
    IF i > Len(s) THEN <<cur>>
    ELSE IF s[i] = Sep THEN <<cur>> \o SplitFrom(s, i + 1, <<>>)
    ELSE SplitFrom(s, i + 1, Append(cur, s[i]))

Split(s) == SplitFrom(s, 1, <<>>)

\* the map() callback of watchNames, with its captured variable prev
RECURSIVE MapParts(_, _)
MapParts(parts, prev) ==
    IF parts = <<>> THEN <<>>
    ELSE LET part == Head(parts)
             name == IF prev # <<>> THEN prev \o <<Sep>> \o part ELSE part
         IN  <<name>> \o MapParts(Tail(parts), name)

watchNames(resourceName) == MapParts(Split(resourceName), <<>>)

\* Array.prototype.find: <<x>> for the first element in S, <<>> for undefined
RECURSIVE Find(_, _)
Find(arr, S) ==
    IF arr = <<>> THEN <<>>
    ELSE IF Head(arr) \in S THEN <<Head(arr)>>
    ELSE Find(Tail(arr), S)

\* the truthiness of find's result: undefined and the empty string are falsy
Truthy(found) == found # <<>> /\ found[1] # <<>>

\* ---------------------------------------------------------------- resources
Resource(names) == [name : names, obj : Objs]
Undefined == [name |-> <<>>, obj |-> 0]

getName(r) == r.name
toObject(r) == r.obj
\* isResourceEqual comparing the two wrappers by reference: the item of an
\* add is never the object stored
SameObject(a, b) == FALSE

isResourceEqual(a, b) == toObject(a) = toObject(b)

\* ---------------------------------------------------------------- state
\* A WatchFunc holds nothing of the store until a callback is registered on it:
\* its names and namesArr never change and its own set cbs is empty.  A handle
\* is therefore kept from its first registered callback to its unsubscribe (as
\* the field h of its callbacks); before and after that it is its argument
\* list, which ev holds while the caller has just been handed it.
VARIABLES
    univ,   \* the names the callers use in this run
    shape,  \* the shape of this run
    d,      \* this._d: the entries, a function on the names present
    w,      \* this._w: the per-name watch counts, a function on its keys
    cbs,    \* this._cbs in insertion order: [id, h, kind, namesArr] per filteredCb
    stack,  \* the add/del calls in progress, innermost last
    nested, \* the calls user callbacks have made during the top-level call
    ev      \* the step just taken and what it returned

vars == <<univ, shape, d, w, cbs, stack, nested, ev>>

Top == stack[Len(stack)]

\* the caller is top-level code, or a user callback that is running; the user
\* callbacks of one top-level add or del make at most shape.nested calls
CanCall ==
    IF stack = <<>> THEN TRUE
    ELSE Top.incb /\ (shape.bounded => nested < shape.nested)

\* a call into the store is made
Call ==
    /\ CanCall
    /\ nested' = IF stack = <<>> \/ ~shape.bounded THEN nested ELSE nested + 1
    /\ UNCHANGED <<univ, shape>>

get(name) == IF name \in DOMAIN d THEN d[name] ELSE Undefined

Without(f, keys) == [k \in (DOMAIN f) \ keys |-> f[k]]

\* the handles that have callbacks, and the closure's own set cbs of one
Handles == {cbs[i].h : i \in 1..Len(cbs)}
OwnCbs(h) == {cbs[i].id : i \in {j \in 1..Len(cbs) : cbs[j].h = h}}
NamesArrOf(h) == cbs[CHOOSE i \in 1..Len(cbs) : cbs[i].h = h].namesArr

\* a callback identity no registered callback and no pass in progress refers to
UsedIds ==
    {cbs[i].id : i \in 1..Len(cbs)}
    \cup UNION {{stack[i].start[j].id : j \in 1..Len(stack[i].start)}
                \cup Range(stack[i].vis) \cup stack[i].gone \cup stack[i].early :
            i \in 1..Len(stack)}
FreshId == CHOOSE i \in 1..(Cardinality(UsedIds) + 1) :
               i \notin UsedIds /\ \A j \in 1..(i - 1) : j \in UsedIds

\* the history of a pass is kept in a bounded run only
Log(f) ==
    IF shape.bounded THEN f
    ELSE [f EXCEPT !.start = <<>>, !.gone = {}, !.vis = <<>>, !.inv = <<>>,
                   !.early = {}]

\* a nested call is being made from inside the passes on the stack
MarkReentrant(st) == [i \in 1..Len(st) |-> [st[i] EXCEPT !.reent = TRUE]]

Init ==
    /\ univ \in Universes
    /\ shape \in Shapes
    /\ d = <<>>
    /\ w = <<>>
    /\ cbs = <<>>
    /\ stack = <<>>
    /\ nested = 0
    /\ ev = [kind |-> "init"]

\* ---------------------------------------------------------------- watch
\* watch(...namesArr): builds the handle and returns it
Watch(namesArr) ==
    /\ Call
    /\ ev' = [kind |-> "watch"]
    /\ UNCHANGED <<d, w, cbs, stack>>

\* this._w[n] || 0
Or0(wm, n) == IF n \in DOMAIN wm /\ wm[n] # 0 THEN wm[n] ELSE 0

\* Array.from(names).forEach(n => this._w[n] = (this._w[n] || 0) + 1)
Incr(wm, names) ==
    [n \in (DOMAIN wm) \cup names |-> IF n \in names THEN Or0(wm, n) + 1 ELSE wm[n]]

\* the identities id and h are labels of closures: outside a pass nothing else
\* refers to them, and the callbacks left are labelled by their place
Relabel(s, st) ==
    IF st # <<>> THEN s
    ELSE [i \in 1..Len(s) |->
             [s[i] EXCEPT !.id = i,
                          !.h = CHOOSE j \in 1..i : s[j].h = s[i].h
                                    /\ \A k \in 1..(j - 1) : s[k].h # s[i].h]]

\* the body of watchFunc(cb) and of watchFunc.arrayWatcher(cb)
AddCallback(h, namesArr, kind, st) ==
    /\ Len(cbs) < MaxCbs
    /\ cbs' = Relabel(Append(cbs, [id |-> FreshId, h |-> IF h = 0 THEN FreshId ELSE h,
                                   kind |-> kind, namesArr |-> namesArr]), st)
    /\ w' = Incr(w, Range(namesArr))

\* watch(...namesArr)(cb) and watch(...namesArr).arrayWatcher(cb): the first
\* callback of a handle
WatchRegister(namesArr, kind) ==
    /\ Call
    /\ AddCallback(0, namesArr, kind, stack)
    /\ ev' = [kind |-> "reg"]
    /\ UNCHANGED <<d, stack>>

\* a further callback is registered on a handle that has callbacks
Register(h, kind) ==
    /\ Call
    /\ AddCallback(h, NamesArrOf(h), kind, stack)
    /\ ev' = [kind |-> "reg"]
    /\ UNCHANGED <<d, stack>>

\* Decr without its `delete this._w[n]`
DecrKeepZero(wm, names) ==
    [n \in (DOMAIN wm) \cup names |-> IF n \in names THEN Or0(wm, n) - 1 ELSE wm[n]]

\* the inner forEach of unsubscribe: decrement, and delete a count that reaches 0
Decr(wm, names) ==
    LET dec == [n \in (DOMAIN wm) \cup names |->
                   IF n \in names THEN Or0(wm, n) - 1 ELSE wm[n]]
    IN  Without(dec, {n \in names : dec[n] = 0})

RECURSIVE DecrTimes(_, _, _)
DecrTimes(wm, names, k) ==
    IF k = 0 THEN wm ELSE DecrTimes(Decr(wm, names), names, k - 1)

\* Set.prototype.delete seen by the forEach passes in progress: an entry deleted
\* before it is visited is not visited, the entries after it are still visited
DropFromPasses(st, removed) ==
    [i \in 1..Len(st) |->
        IF st[i].pub
        THEN Log([st[i] EXCEPT
                !.idx = Cardinality({j \in 1..st[i].idx : cbs[j].id \notin removed}),
                !.gone = @ \cup removed])
        ELSE st[i]]

\* watchFunc.unsubscribe() of a handle that has callbacks
Unsubscribe(h) ==
    /\ Call
    /\ LET removed == OwnCbs(h) IN
       /\ cbs' = Relabel(SelectSeq(cbs, LAMBDA c : c.id \notin removed), stack)
       /\ w' = DecrTimes(w, Range(NamesArrOf(h)), Cardinality(removed))
       /\ stack' = DropFromPasses(stack, removed)
       /\ ev' = [kind |-> "unsub", n |-> Cardinality(removed)]
    /\ UNCHANGED d

\* watchFunc.unsubscribe() of a handle whose own set cbs is empty (never
\* registered on, or unsubscribed before): its forEach has nothing to do
UnsubscribeAgain ==
    /\ Call
    /\ cbs' = SelectSeq(cbs, LAMBDA c : c.id \notin {})
    /\ w' = DecrTimes(w, {}, 0)
    /\ ev' = [kind |-> "unsub", n |-> 0]
    /\ UNCHANGED <<d, stack>>

\* ---------------------------------------------------------------- add, del, _publish
\* a call in progress.  items: how many items add has still to process; names:
\* the local array names of add; pub: a _publish pass is running for (name,
\* data); idx: how many entries of this._cbs its forEach has passed; incb: a
\* user callback is running.  The rest is history of the pass: had, whether the
\* name had an entry before the mutation; start, this._cbs when the pass began;
\* gone, the callbacks deleted during it; vis, those visited; inv, the user
\* callbacks invoked, with their arguments; reent, whether a nested add, del or
\* garbageCollect ran meanwhile; early, the callbacks that passes of nested
\* calls invoked meanwhile.
Frame(op, items) ==
    [op |-> op, items |-> items, names |-> <<>>,
     pub |-> FALSE, name |-> <<>>, data |-> Undefined, idx |-> 0, incb |-> FALSE,
     had |-> FALSE, start |-> <<>>, gone |-> {}, vis |-> <<>>, inv |-> <<>>,
     reent |-> FALSE, early |-> {}]

\* this._publish(name, data) begins: forEach over this._cbs
Publishing(f, name, data, had) ==
    [f EXCEPT !.pub = TRUE, !.name = name, !.data = data, !.idx = 0,
              !.had = had, !.start = cbs, !.gone = {}, !.vis = <<>>,
              !.inv = <<>>, !.reent = FALSE, !.early = {}]

SetTop(st, f) == [st EXCEPT ![Len(st)] = f]
Pop(st) == SubSeq(st, 1, Len(st) - 1)

\* add(...items) is entered with n items; each item is drawn when forEach
\* reaches it (add never looks ahead in items)
Add(n) ==
    /\ Call
    /\ Len(stack) < MaxDepth
    /\ stack' = Append(MarkReentrant(stack), Frame("add", n))
    /\ ev' = [kind |-> "step"]
    /\ UNCHANGED <<d, w, cbs>>

\* Pending for a forEach over a copy of this._cbs taken when the pass began
PendingSnapshot(f) == SelectSeq(f.start, LAMBDA c : c.id \notin Range(f.vis))

\* the entries of this._cbs the forEach of a pass has still to visit
Pending(f) == SubSeq(cbs, f.idx + 1, Len(cbs))

\* Passes with the test of the plain callback for the array watcher too
PassesByPrefix(c, name) == Truthy(Find(watchNames(name), Range(c.namesArr)))

\* the test of a filtered callback: does it pass (name, data) on to the user's
Passes(c, name) ==
    IF c.kind = "plain"
    THEN Truthy(Find(watchNames(name), Range(c.namesArr)))
    ELSE name \in Range(c.namesArr)

\* Present with the reduce pushing to the front of arr
RECURSIVE PresentReversed(_, _)
PresentReversed(namesArr, dd) ==
    IF namesArr = <<>> THEN <<>>
    ELSE PresentReversed(Tail(namesArr), dd)
         \o (IF Head(namesArr) \in DOMAIN dd THEN <<dd[Head(namesArr)]>> ELSE <<>>)

\* the reduce of an array watcher over the entries dd: those of namesArr present
RECURSIVE Present(_, _)
Present(namesArr, dd) ==
    IF namesArr = <<>> THEN <<>>
    ELSE (IF Head(namesArr) \in DOMAIN dd THEN <<dd[Head(namesArr)]>> ELSE <<>>)
         \o Present(Tail(namesArr), dd)

\* what the user's callback receives and the entry it would read back, with the
\* pass's gone, reent and early at that moment
Invocation(c, f, dd) ==
    [cb |-> c.id, name |-> f.name, data |-> f.data,
     arr |-> IF c.kind = "array" THEN Present(c.namesArr, dd) ELSE <<>>,
     got |-> IF f.name \in DOMAIN dd THEN dd[f.name] ELSE Undefined,
     gone |-> f.gone, reent |-> f.reent, early |-> f.early]

\* this._cbs.forEach in _publish, from where the pass stands: each filtered
\* callback visited runs its test; the forEach stops inside the first user
\* callback it calls (incb), or is exhausted
RECURSIVE RunPass(_, _)
RunPass(f, dd) ==
    IF Pending(f) = <<>> THEN Log(f)
    ELSE LET c == Head(Pending(f))
             g == [f EXCEPT !.idx = @ + 1, !.vis = Append(@, c.id)]
         IN  IF Passes(c, f.name)
             THEN Log([g EXCEPT !.incb = TRUE,
                                !.inv = Append(@, Invocation(c, f, dd))])
             ELSE RunPass(g, dd)

\* the test of add: the name has an entry and it equals the item
AlreadyStored(item) ==
    getName(item) \in DOMAIN d /\ isResourceEqual(item, d[getName(item)])

\* AddItem with names.push(name) after the test: a skipped item is not pushed
AddItemStoredOnly(item) ==
    /\ stack # <<>>
    /\ Top.op = "add" /\ ~Top.pub /\ Top.items > 0
    /\ LET name == getName(item)
           f == [Top EXCEPT !.items = @ - 1]
           stored == [k \in (DOMAIN d) \cup {name} |-> IF k = name THEN item ELSE d[k]]
       IN  IF AlreadyStored(item)
           THEN /\ stack' = SetTop(stack, f)
                /\ d' = d
           ELSE /\ d' = stored
                /\ stack' = SetTop(stack,
                       RunPass(Publishing([f EXCEPT !.names = Append(@, name)],
                                          name, item, name \in DOMAIN d), stored))
    /\ ev' = [kind |-> "item", item |-> item]
    /\ UNCHANGED <<univ, shape, w, cbs, nested>>

\* one round of items.forEach in add: skip the item, or store and publish it
AddItem(item) ==
    /\ stack # <<>>
    /\ Top.op = "add" /\ ~Top.pub /\ Top.items > 0
    /\ LET name == getName(item)
           f == [Top EXCEPT !.items = @ - 1, !.names = Append(@, name)]
           stored == [k \in (DOMAIN d) \cup {name} |-> IF k = name THEN item ELSE d[k]]
       IN  IF AlreadyStored(item)
           THEN /\ stack' = SetTop(stack, f)
                /\ d' = d
           ELSE /\ d' = stored
                /\ stack' = SetTop(stack,
                       RunPass(Publishing(f, name, item, name \in DOMAIN d), stored))
    /\ ev' = [kind |-> "item", item |-> item]
    /\ UNCHANGED <<univ, shape, w, cbs, nested>>

\* return this.watch(...names); the caller drops the handle (reg = "none") or
\* registers a callback on it: add(...)(cb), add(...).arrayWatcher(cb)
AddReturn(reg) ==
    /\ stack # <<>>
    /\ Top.op = "add" /\ ~Top.pub /\ Top.items = 0
    /\ stack' = Pop(stack)
    /\ IF reg = "none"
       THEN cbs' = Relabel(cbs, Pop(stack)) /\ w' = w
       ELSE AddCallback(0, Top.names, reg, Pop(stack))
    /\ ev' = [kind |-> "added", reg |-> reg]
    /\ nested' = IF Len(stack) = 1 THEN 0 ELSE nested
    /\ UNCHANGED <<univ, shape, d>>

\* del(name): delete, then publish undefined
Del(name) ==
    /\ Call
    /\ Len(stack) < MaxDepth
    /\ d' = Without(d, {name})
    /\ stack' = Append(MarkReentrant(stack),
                   RunPass(Publishing(Frame("del", 0), name, Undefined,
                                      name \in DOMAIN d),
                           Without(d, {name})))
    /\ ev' = [kind |-> "del", name |-> name]
    /\ UNCHANGED <<w, cbs>>

\* the user's callback returns and the forEach goes on
Return ==
    /\ stack # <<>>
    /\ Top.incb
    /\ stack' = SetTop(stack, RunPass([Top EXCEPT !.incb = FALSE], d))
    /\ ev' = [kind |-> "step"]
    /\ UNCHANGED <<univ, shape, d, w, cbs, nested>>

\* a pass of a nested call is over: the passes it ran inside note whom it invoked
NoteEarly(st, f) ==
    [i \in 1..Len(st) |->
        [st[i] EXCEPT !.early = @ \cup {f.inv[j].cb : j \in 1..Len(f.inv)}]]

\* the forEach of _publish is exhausted: del returns, add goes on to its next item
PassEnd ==
    /\ stack # <<>>
    /\ Top.pub /\ ~Top.incb
    /\ stack' = IF Top.op = "del" THEN NoteEarly(Pop(stack), Top)
                ELSE Append(NoteEarly(Pop(stack), Top),
                            [Top EXCEPT !.pub = FALSE, !.idx = 0])
    /\ nested' = IF Top.op = "del" /\ Len(stack) = 1 THEN 0 ELSE nested
    /\ cbs' = Relabel(cbs, stack')
    /\ ev' = [kind |-> "step"]
    /\ UNCHANGED <<univ, shape, d, w>>

\* ---------------------------------------------------------------- garbageCollect
\* the find() test of garbageCollect: some watchNames(k) is a key of this._w
Retained(k, wm) == Truthy(Find(watchNames(k), DOMAIN wm))

\* garbageCollect removing through del: one of the removals is published
GarbageCollectByDel ==
    /\ Call
    /\ LET gone == {k \in DOMAIN d : ~Retained(k, w)} IN
       /\ d' = Without(d, gone)
       /\ stack' = IF gone = {} THEN MarkReentrant(stack)
                   ELSE Append(MarkReentrant(stack),
                               RunPass(Publishing(Frame("del", 0), CHOOSE k \in gone : TRUE,
                                                  Undefined, TRUE),
                                       Without(d, gone)))
       /\ ev' = [kind |-> "gc", removed |-> gone]
    /\ UNCHANGED <<w, cbs>>

GarbageCollect ==
    /\ Call
    /\ d' = Without(d, {k \in DOMAIN d : ~Retained(k, w)})
    /\ stack' = MarkReentrant(stack)
    /\ ev' = [kind |-> "gc", removed |-> {k \in DOMAIN d : ~Retained(k, w)}]
    /\ UNCHANGED <<w, cbs>>

\* ---------------------------------------------------------------- specification
Next ==
    \/ \E namesArr \in NameLists(univ) : Watch(namesArr)
    \/ \E namesArr \in NameLists(univ), kind \in {"plain", "array"} :
           WatchRegister(namesArr, kind)
    \/ \E h \in Handles, kind \in {"plain", "array"} : Register(h, kind)
    \/ \E h \in Handles : Unsubscribe(h)
    \/ UnsubscribeAgain
    \/ GarbageCollect
    \/ \E n \in 1..shape.items : Add(n)
    \/ \E item \in Resource(univ) : AddItem(item)
    \/ \E reg \in {"none", "plain", "array"} : AddReturn(reg)
    \/ \E name \in univ : Del(name)
    \/ Return
    \/ PassEnd

Spec == Init /\ [][Next]_vars

\* ---------------------------------------------------------------- unbounded runs
\* runs on one name in which top-level code adds and deletes and the user
\* callbacks register and unsubscribe without a budget
LoopInit ==
    /\ univ = {NameA, NameAB}
    /\ shape = LoopShape
    /\ d = <<>>
    /\ w = <<>>
    /\ cbs = <<>>
    /\ stack = <<>>
    /\ nested = 0
    /\ ev = [kind |-> "init"]

LoopNext ==
    \/ WatchRegister(<<NameA>>, "plain")
    \/ \E h \in Handles : Unsubscribe(h)
    \/ stack = <<>> /\ Add(1)
    \/ \E item \in Resource({NameA}) : AddItem(item)
    \/ AddReturn("none")
    \/ stack = <<>> /\ Del(NameA)
    \/ Return
    \/ PassEnd

\* JavaScript runs add, del and _publish to completion: the forEach of add and
\* of _publish go on, add returns, and a user callback that was called returns
LoopSpec ==
    /\ LoopInit /\ [][LoopNext]_vars
    /\ WF_vars(\E item \in Resource({NameA}) : AddItem(item))
    /\ WF_vars(AddReturn("none"))
    /\ WF_vars(Return)
    /\ WF_vars(PassEnd)

\* ---------------------------------------------------------------- properties
\* the ancestor prefixes of a name: the name cut at each separator, and itself
AncestorPrefixes(n) ==
    {SubSeq(n, 1, i - 1) : i \in {j \in 1..Len(n) : n[j] = Sep}} \cup {n}

\* a watch set holds an ancestor prefix of n
Covers(names, n) == AncestorPrefixes(n) \cap names # {}

NoEmptySegment(n) == \A i \in 1..Len(Split(n)) : Split(n)[i] # <<>>

Frames == {stack[i] : i \in 1..Len(stack)}

\* the forEach of the pass is exhausted: its history is complete
Exhausted(f) == f.pub /\ ~f.incb

\* the callbacks registered when the pass began and not unsubscribed during it
Stayed(f) == {c \in Range(f.start) : c.id \notin f.gone}

\* the invocations of a callback in a pass
Calls(f, id) == {i \in 1..Len(f.inv) : f.inv[i].cb = id}

\* the stack without the history flag reent
Strip(st) == [i \in 1..Len(st) |-> [st[i] EXCEPT !.reent = FALSE]]

Count(n) == IF n \in DOMAIN w THEN w[n] ELSE 0

Registered == Range(cbs)

\* C1: for every mutation of name N, a plain callback registered through a
\* handle on name set S (and registered throughout the pass) is invoked if and
\* only if some ancestor prefix of N, N included, is in S
C1_Claim ==
    \A f \in Frames : Exhausted(f) =>
        \A c \in Stayed(f) : c.kind = "plain" =>
            (Calls(f, c.id) # {} <=> Covers(Range(c.namesArr), f.name))

\* the statement of C1 for mutations of names without an empty segment
C1_NoEmptySegment ==
    \A f \in Frames : Exhausted(f) /\ NoEmptySegment(f.name) =>
        \A c \in Stayed(f) : c.kind = "plain" =>
            (Calls(f, c.id) # {} <=> Covers(Range(c.namesArr), f.name))

\* C2: in every state the count stored for a name is the number of registered
\* callbacks whose handle's name set holds it, and no stored count is zero or
\* negative (a name whose count would be zero has no key)
C2_CountsMatchCallbacks ==
    /\ \A n \in univ \cup DOMAIN w :
           Count(n) = Cardinality({i \in 1..Len(cbs) : n \in Range(cbs[i].namesArr)})
    /\ \A n \in DOMAIN w : w[n] > 0

\* one of two callbacks on the same name has just been unsubscribed, with an
\* entry stored: the count of the name went from 2 to 1
C2_Witness ==
    /\ ev.kind = "unsub" /\ ev.n = 1
    /\ d # <<>>
    /\ \E n \in DOMAIN w : w[n] = 1 /\ \E c \in Registered : n \in Range(c.namesArr)

\* C3: garbageCollect leaves exactly the keys that have an ancestor prefix
\* (themselves included) with a positive count, with their values unchanged
C3_Claim ==
    [][ev'.kind = "gc" =>
          d' = Without(d, {k \in DOMAIN d :
                              ~\E p \in AncestorPrefixes(k) : Count(p) > 0})]_vars

\* the statement of C3 for keys without an empty segment
C3_NoEmptySegment ==
    [][ev'.kind = "gc" =>
          /\ \A k \in DOMAIN d' : k \in DOMAIN d /\ d'[k] = d[k]
          /\ \A k \in DOMAIN d : NoEmptySegment(k) =>
                (k \in DOMAIN d' <=> \E p \in AncestorPrefixes(k) : Count(p) > 0)]_vars

\* C4: garbageCollect keeps an entry n while some handle with a registered
\* callback watches n or an ancestor prefix of n, whatever other handles have
\* unsubscribed, and removes n once no such handle is left
C4_Claim ==
    [][ev'.kind = "gc" =>
          \A n \in DOMAIN d :
              n \in DOMAIN d' <=> \E c \in Registered : Covers(Range(c.namesArr), n)]_vars

\* the statement of C4 for entries without an empty segment
C4_NoEmptySegment ==
    [][ev'.kind = "gc" =>
          \A n \in DOMAIN d : NoEmptySegment(n) =>
              (n \in DOMAIN d' <=> \E c \in Registered : Covers(Range(c.namesArr), n))]_vars

\* C5: add of an item whose name has an entry with an equal snapshot invokes no
\* callback and leaves the entries, the counts and the callbacks as they were
C5_EqualAddChangesNothing ==
    [][(/\ ev'.kind = "item"
        /\ ev'.item.name \in DOMAIN d
        /\ d[ev'.item.name].obj = ev'.item.obj)
       => /\ d' = d /\ w' = w /\ cbs' = cbs
          /\ Len(stack') = Len(stack)
          /\ ~stack'[Len(stack')].pub
          /\ \A i \in 1..Len(stack) :
                stack'[i].inv = stack[i].inv /\ stack'[i].incb = stack[i].incb]_vars

\* an item equal to its entry has just been skipped while a plain callback
\* that passes changes of its name is registered
C5_Witness ==
    /\ ev.kind = "item"
    /\ stack # <<>> /\ ~Top.pub
    /\ ev.item.name \in DOMAIN d /\ d[ev.item.name].obj = ev.item.obj
    /\ \E c \in Registered : c.kind = "plain" /\ Passes(c, ev.item.name)

\* C6: an add that replaces an entry by a different snapshot invokes each
\* registered plain callback whose watch set holds an ancestor prefix of the
\* name exactly once, with (name, item), and get(name) is the item afterwards
C6_Claim ==
    \A f \in Frames : (Exhausted(f) /\ f.op = "add" /\ f.had) =>
        /\ \A c \in Stayed(f) :
              (c.kind = "plain" /\ Covers(Range(c.namesArr), f.name)) =>
                  /\ Cardinality(Calls(f, c.id)) = 1
                  /\ \A i \in Calls(f, c.id) :
                        f.inv[i].name = f.name /\ f.inv[i].data = f.data
        /\ ~f.reent => get(f.name) = f.data

\* the statement of C6 for names without an empty segment
C6_NoEmptySegment ==
    \A f \in Frames : (Exhausted(f) /\ f.op = "add" /\ f.had /\ NoEmptySegment(f.name)) =>
        /\ \A c \in Stayed(f) :
              (c.kind = "plain" /\ Covers(Range(c.namesArr), f.name)) =>
                  /\ Cardinality(Calls(f, c.id)) = 1
                  /\ \A i \in Calls(f, c.id) :
                        f.inv[i].name = f.name /\ f.inv[i].data = f.data
        /\ ~f.reent => get(f.name) = f.data

\* C7: del of a name that has no entry changes neither the entries, the
\* counts nor the callbacks, and notifies no callback
C7_Claim ==
    [][/\ (ev'.kind = "del" /\ ev'.name \notin DOMAIN d) =>
              d' = d /\ w' = w /\ cbs' = cbs
       /\ \A i \in 1..Len(stack') :
              (stack'[i].op = "del" /\ ~stack'[i].had) => stack'[i].inv = <<>>]_vars

\* the part of C7 the code keeps: the entries, counts and callbacks are unchanged
C7_StoreUnchanged ==
    [][(ev'.kind = "del" /\ ev'.name \notin DOMAIN d) =>
           d' = d /\ w' = w /\ cbs' = cbs]_vars

\* C8: del of a name that has an entry removes that entry only, leaves the
\* counts and the callbacks, and invokes each registered plain callback whose
\* watch set holds an ancestor prefix of the name exactly once, with (name,
\* undefined), the entry being absent when a callback is invoked
C8_Claim ==
    [][/\ (ev'.kind = "del" /\ ev'.name \in DOMAIN d) =>
              d' = Without(d, {ev'.name}) /\ w' = w /\ cbs' = cbs
       /\ \A i \in 1..Len(stack') :
              LET f == stack'[i] IN
              (f.op = "del" /\ f.had) =>
                  /\ \A j \in 1..Len(f.inv) :
                        /\ f.inv[j].name = f.name /\ f.inv[j].data = Undefined
                        /\ ~f.inv[j].reent => f.inv[j].got = Undefined
                  /\ Exhausted(f) =>
                        \A c \in Stayed(f) :
                            (c.kind = "plain" /\ Covers(Range(c.namesArr), f.name)) =>
                                Cardinality(Calls(f, c.id)) = 1]_vars

\* the statement of C8 for names without an empty segment
C8_NoEmptySegment ==
    [][/\ (ev'.kind = "del" /\ ev'.name \in DOMAIN d) =>
              d' = Without(d, {ev'.name}) /\ w' = w /\ cbs' = cbs
       /\ \A i \in 1..Len(stack') :
              LET f == stack'[i] IN
              (f.op = "del" /\ f.had /\ NoEmptySegment(f.name)) =>
                  /\ \A j \in 1..Len(f.inv) :
                        /\ f.inv[j].name = f.name /\ f.inv[j].data = Undefined
                        /\ ~f.inv[j].reent => f.inv[j].got = Undefined
                  /\ Exhausted(f) =>
                        \A c \in Stayed(f) :
                            (c.kind = "plain" /\ Covers(Range(c.namesArr), f.name)) =>
                                Cardinality(Calls(f, c.id)) = 1]_vars

\* C9: garbageCollect invokes no callback and leaves the counts and the
\* registered callbacks as they were: it changes the entries only
C9_GcChangesEntriesOnly ==
    [][ev'.kind = "gc" =>
          w' = w /\ cbs' = cbs /\ Strip(stack') = Strip(stack)]_vars

\* garbageCollect has just removed an entry while a callback is registered
C9_Witness == ev.kind = "gc" /\ ev.removed # {} /\ cbs # <<>>

\* C10: a callback is invoked only while it is registered: never once its
\* handle has unsubscribed, in later passes or in the rest of a pass in
\* progress; and a pass still visits every callback that stayed registered
\* exactly once and invokes it exactly when its test passes
C10_UnsubscribePrecision ==
    [][\A i \in 1..Len(stack') :
          LET f == stack'[i] IN
          /\ (f.inv # <<>> /\ (i > Len(stack) \/ f.inv # stack[i].inv)) =>
                 f.inv[Len(f.inv)].cb \in {c.id : c \in Registered}
          /\ \A j \in 1..Len(f.inv) : f.inv[j].cb \notin f.inv[j].gone
          /\ Exhausted(f) =>
                \A c \in Stayed(f) :
                    /\ Cardinality({j \in 1..Len(f.vis) : f.vis[j] = c.id}) = 1
                    /\ Cardinality(Calls(f, c.id)) = IF Passes(c, f.name) THEN 1 ELSE 0]_vars

\* a pass is over in which a user callback unsubscribed a handle, a callback
\* of that handle that passes the change was never visited, and a callback of
\* another handle was invoked
C10_Witness ==
    /\ stack # <<>> /\ Exhausted(Top)
    /\ \E c \in Range(Top.start) :
          /\ c.id \in Top.gone /\ c.id \notin Range(Top.vis)
          /\ Passes(c, Top.name)
    /\ \E c \in Stayed(Top) : Calls(Top, c.id) # {}

\* the values entries dd hold for the names of a list, in the order of the list
StoredFor(names, dd) ==
    LET present == SelectSeq(names, LAMBDA n : n \in DOMAIN dd)
    IN  [j \in 1..Len(present) |-> dd[present[j]]]

\* C11: whenever an array-watcher callback is invoked, the array it receives
\* is the list of the values stored at that moment for the names of its watch
\* list, in the order of that list, absent names skipped; its other two
\* arguments are the changed name and the changed data
C11_ArrayContents ==
    [][\A i \in 1..Len(stack') :
          LET f == stack'[i] IN
          (f.inv # <<>> /\ (i > Len(stack) \/ f.inv # stack[i].inv)) =>
              LET r == f.inv[Len(f.inv)]
                  c == CHOOSE c \in Registered : c.id = r.cb
              IN  c.kind = "array" =>
                      /\ r.arr = StoredFor(c.namesArr, d')
                      /\ r.name = f.name /\ r.data = f.data
                      /\ ev'.kind = "item" =>
                             r.name = ev'.item.name /\ r.data = ev'.item
                      /\ ev'.kind = "del" =>
                             r.name = ev'.name /\ r.data = Undefined]_vars

\* an array watcher on two names, both stored, is being invoked for the del of
\* the first: it receives the entry of the second only
C11_Witness ==
    /\ stack # <<>> /\ Top.op = "del" /\ Top.incb /\ Top.had
    /\ LET r == Top.inv[Len(Top.inv)] IN
       \E c \in Registered :
          /\ c.id = r.cb /\ c.kind = "array"
          /\ Len(c.namesArr) = 2 /\ c.namesArr[1] = Top.name
          /\ Len(r.arr) = 1 /\ r.arr[1].name = c.namesArr[2]

\* C12: an array-watcher callback is invoked for a mutation of name N if and
\* only if N is one of the names of its handle's watch list; a mutation of a
\* descendant of a watched name does not invoke it
C12_ArrayExactMatch ==
    \A f \in Frames : Exhausted(f) =>
        \A c \in Stayed(f) : c.kind = "array" =>
            (Calls(f, c.id) # {} <=> f.name \in Range(c.namesArr))

\* a pass for a descendant of a watched name is over: the plain callback of a
\* handle was invoked and the array-watcher callback of the same handle was not
C12_Witness ==
    /\ stack # <<>> /\ Exhausted(Top)
    /\ \E c1, c2 \in Stayed(Top) :
          /\ c1.h = c2.h /\ c1.kind = "plain" /\ c2.kind = "array"
          /\ Top.name \notin Range(c2.namesArr)
          /\ Covers(Range(c2.namesArr), Top.name)
          /\ Calls(Top, c1.id) # {} /\ Calls(Top, c2.id) = {}

\* C13: a callback receives its notifications in the order in which the
\* mutations were issued, mutations issued from inside a callback included: it
\* is never notified of the mutation of a pass after it was notified of a
\* mutation issued during that pass; and add stores its next item, and add and
\* del return, only when the pass in progress has notified every callback
C13_Claim ==
    [][/\ \A i \in 1..Len(stack') :
              \A j \in 1..Len(stack'[i].inv) :
                  stack'[i].inv[j].cb \notin stack'[i].inv[j].early
       /\ (ev'.kind \in {"item", "added"} \/ Len(stack') < Len(stack)) =>
              (~Top.pub \/ Exhausted(Top))]_vars

\* the part of C13 the code keeps: add stores its next item, and add and del
\* return, only when the pass in progress has notified every callback
C13_PassBeforeNext ==
    [][(ev'.kind \in {"item", "added"} \/ Len(stack') < Len(stack)) =>
           (~Top.pub \/ Exhausted(Top))]_vars

StartIds(f) == {c.id : c \in Range(f.start)}

\* C14: a pass invokes only callbacks that were registered when it began (a
\* callback registered from inside a callback during the pass is not invoked
\* for the notification in flight), and it invokes every callback registered
\* when it began and not unsubscribed during it exactly once
C14_Claim ==
    \A f \in Frames :
        /\ Range(f.vis) \subseteq StartIds(f)
        /\ \A j \in 1..Len(f.inv) : f.inv[j].cb \in StartIds(f)
        /\ Exhausted(f) =>
              \A c \in Stayed(f) :
                  Cardinality({j \in 1..Len(f.vis) : f.vis[j] = c.id}) = 1

\* the part of C14 the code keeps: a pass runs every callback registered when
\* it began and not unsubscribed during it exactly once
C14_StayedOnce ==
    \A f \in Frames : Exhausted(f) =>
        \A c \in Stayed(f) :
            Cardinality({j \in 1..Len(f.vis) : f.vis[j] = c.id}) = 1

CountIn(wm, n) == IF n \in DOMAIN wm THEN wm[n] ELSE 0

\* C15: the handle add returns is the handle watch returns for the names of
\* its items in argument order, the items skipped as equal to their entries
\* included: a callback registered on it is a callback of a new handle on
\* exactly those names, of the kind asked for, and each of those names counts
\* one more; the callbacks registered before are as they were
C15_AddHandleIsWatchHandle ==
    [][/\ ev'.kind = "item" =>
              stack'[Len(stack)].names = Append(Top.names, ev'.item.name)
       /\ (ev'.kind = "added" /\ ev'.reg # "none") =>
              LET new == cbs'[Len(cbs')] IN
              /\ Len(cbs') = Len(cbs) + 1
              /\ new.namesArr = Top.names /\ new.kind = ev'.reg
              /\ \A i \in 1..Len(cbs) :
                    /\ cbs'[i].namesArr = cbs[i].namesArr
                    /\ cbs'[i].kind = cbs[i].kind
                    /\ cbs'[i].h # new.h
              /\ \A n \in univ \cup DOMAIN w \cup DOMAIN w' :
                    CountIn(w', n) = CountIn(w, n)
                                     + (IF n \in Range(Top.names) THEN 1 ELSE 0)]_vars

\* add has returned after two items of different names and a callback has been
\* registered on its handle: the handle is on both names, in argument order
C15_Witness ==
    /\ ev.kind = "added" /\ ev.reg # "none"
    /\ cbs # <<>>
    /\ LET new == cbs[Len(cbs)] IN
       /\ Len(new.namesArr) = 2 /\ new.namesArr[1] # new.namesArr[2]
       /\ new.kind = ev.reg
       /\ \A n \in Range(new.namesArr) : n \in DOMAIN d /\ n \in DOMAIN w

\* C16: garbageCollect never removes an entry k when some registered callback,
\* plain or array-watcher, would be invoked on a change to k
C16_Claim ==
    [][ev'.kind = "gc" =>
          \A k \in (DOMAIN d) \ (DOMAIN d') : \A c \in Registered : ~Passes(c, k)]_vars

\* the statement of C16 for entries without an empty segment
C16_NoEmptySegment ==
    [][ev'.kind = "gc" =>
          \A k \in (DOMAIN d) \ (DOMAIN d') :
              NoEmptySegment(k) => \A c \in Registered : ~Passes(c, k)]_vars

\* the chain computed for a name holds the name, and cuts of it at a separator only
ChainOk(n) ==
    n \in Range(watchNames(n)) /\ Range(watchNames(n)) \subseteq AncestorPrefixes(n)

\* C17: for every name N, names with an empty segment included, the chain
\* computed for N holds N and otherwise only N cut at a separator; so a plain
\* callback registered on exactly N is invoked for a change to N, and a
\* positive count of exactly N keeps entry N across garbageCollect
C17_Claim ==
    [][/\ \A i \in 1..Len(stack') :
              LET f == stack'[i] IN
              /\ f.pub => ChainOk(f.name)
              /\ Exhausted(f) =>
                    \A c \in Stayed(f) :
                        (c.kind = "plain" /\ f.name \in Range(c.namesArr)) =>
                            Calls(f, c.id) # {}
       /\ ev'.kind = "gc" =>
              \A k \in DOMAIN d : ChainOk(k) /\ (Count(k) > 0 => k \in DOMAIN d')]_vars

\* the statement of C17 for names without an empty segment
C17_NoEmptySegment ==
    [][/\ \A i \in 1..Len(stack') :
              LET f == stack'[i] IN
              NoEmptySegment(f.name) =>
                  /\ f.pub => ChainOk(f.name)
                  /\ Exhausted(f) =>
                        \A c \in Stayed(f) :
                            (c.kind = "plain" /\ f.name \in Range(c.namesArr)) =>
                                Calls(f, c.id) # {}
       /\ ev'.kind = "gc" =>
              \A k \in DOMAIN d :
                  NoEmptySegment(k) =>
                      ChainOk(k) /\ (Count(k) > 0 => k \in DOMAIN d')]_vars

\* two callback sequences that differ in the identities only
SameCallbacks(a, b) ==
    /\ Len(a) = Len(b)
    /\ \A i \in 1..Len(a) : a[i].namesArr = b[i].namesArr /\ a[i].kind = b[i].kind
    /\ \A i, j \in 1..Len(a) : (a[i].h = a[j].h) <=> (b[i].h = b[j].h)

\* C18: watch(...names) and add(...items) by themselves change neither the
\* counts nor the callbacks; hence garbageCollect removes an entry that no
\* registered callback's name set covers
C18_Claim ==
    [][/\ ev'.kind = "watch" => d' = d /\ w' = w /\ cbs' = cbs /\ stack' = stack
       /\ (ev'.kind = "added" /\ ev'.reg = "none") =>
              d' = d /\ w' = w /\ SameCallbacks(cbs, cbs')
       /\ ev'.kind = "gc" =>
              \A k \in DOMAIN d :
                  (~\E c \in Registered : Covers(Range(c.namesArr), k)) =>
                      k \notin DOMAIN d']_vars

\* the part of C18 the code keeps on every name: creating a handle changes
\* neither the counts nor the callbacks
C18_HandleCreation ==
    [][/\ ev'.kind = "watch" => d' = d /\ w' = w /\ cbs' = cbs /\ stack' = stack
       /\ (ev'.kind = "added" /\ ev'.reg = "none") =>
              d' = d /\ w' = w /\ SameCallbacks(cbs, cbs')]_vars

\* the statement of C18 for entries without an empty segment
C18_NoEmptySegment ==
    [][ev'.kind = "gc" =>
          \A k \in DOMAIN d :
              (NoEmptySegment(k) /\ ~\E c \in Registered : Covers(Range(c.namesArr), k)) =>
                  k \notin DOMAIN d']_vars

\* C19: every add or del call returns in the end, given that each user
\* callback that is called returns: a pass invokes finitely many callbacks even
\* when the callbacks it invokes register further callbacks during it
C19_Claim == (stack # <<>>) ~> (stack = <<>>)

====
